---------------------------- MODULE Spec2Model ----------------------------
(***************************************************************************)
(* A model of src/RunClang.cxx (CastXML): the argument augmenter runClang, *)
(* the driver invocation and job dispatch loop runClangImpl, the per-job   *)
(* execution runClangCI, the frontend action selection and the predefines  *)
(* patcher CastXMLPredefines.                                              *)
(*                                                                         *)
(* Text (std::string) is a sequence of one-character strings, so that find *)
(* and substr work on characters as the library's do.  Argument vectors    *)
(* are sequences of tokens.  The Clang driver and frontend are libraries   *)
(* outside the source: the job list BuildCompilation returns, the success  *)
(* of createDiagnostics, of opening the output stream and of the frontend  *)
(* run are chosen nondeterministically where the code calls them.          *)
(***************************************************************************)
EXTENDS Integers, Sequences, FiniteSets

\* ------------------------------------------------------------------ bounds
MaxJobs == 2
MaxArgs == 2
MaxIncludes == 2
MaxChunks == 4

\* ------------------------------------------------------------------- text
\* std::string::npos, the "not found" result of find.
npos == -1

\* char const predef_start[] = "# 1 \"<built-in>\" 3\n";
predef_start ==
  <<"#"," ","1"," ","\"","<","b","u","i","l","t","-","i","n",">","\""," ","3","\n">>

\* char const predef_end[] = "# 1 \"<command line>\" 1\n";
predef_end ==
  <<"#"," ","1"," ","\"","<","c","o","m","m","a","n","d"," ","l","i","n","e",">","\""," ","1","\n">>

\* sizeof(predef_start): the characters and the terminating NUL.
sizeof_predef_start == Len(predef_start) + 1

Min(a, b) == IF a <= b THEN a ELSE b

\* std::string::find(pat): the 0-based position of the first occurrence of
\* pat, scanning from the beginning, or npos.
RECURSIVE FindFrom(_, _, _)
FindFrom(s, pat, pos) ==
  IF pos + Len(pat) > Len(s) THEN npos
  ELSE IF SubSeq(s, pos + 1, pos + Len(pat)) = pat THEN pos
  ELSE FindFrom(s, pat, pos + 1)

find(s, pat) == FindFrom(s, pat, 0)

\* std::string::substr(pos, n): at most n characters from 0-based pos.
substr(s, pos, n) == SubSeq(s, pos + 1, Min(pos + n, Len(s)))

\* std::string::substr(pos): from 0-based pos to the end.
substrFrom(s, pos) == SubSeq(s, pos + 1, Len(s))

\* Mutants of UpdatePredefines: the marker line left out of the kept head;
\* the replacement text left out of the fallback.
UpdatePredefines_dropMarker(predefines, Predefines) ==
  LET start == find(predefines, predef_start)
      end   == find(predefines, predef_end)
  IN  IF start # npos /\ end # npos
      THEN substr(predefines, 0, start) \o Predefines \o substrFrom(predefines, end)
      ELSE predefines \o Predefines

UpdatePredefines_noFallback(predefines, Predefines) ==
  LET start == find(predefines, predef_start)
      end   == find(predefines, predef_end)
  IN  IF start # npos /\ end # npos
      THEN substr(predefines, 0, start + sizeof_predef_start - 1)
             \o Predefines \o substrFrom(predefines, end)
      ELSE predefines

\* CastXMLPredefines::UpdatePredefines; Predefines is Opts.Predefines.
UpdatePredefines(predefines, Predefines) ==
  LET start == find(predefines, predef_start)
      end   == find(predefines, predef_end)
  IN  IF start # npos /\ end # npos
      THEN substr(predefines, 0, start + sizeof_predef_start - 1)
             \o Predefines \o substrFrom(predefines, end)
      ELSE predefines \o Predefines

\* Mutant of BeginSourceFileAction: the patch applied in every mode.
BeginSourceFileAction_always(computed, Opts) ==
  [predefines |-> UpdatePredefines(computed, Opts.Predefines), ret |-> TRUE]

\* CastXMLPredefines::BeginSourceFileAction: the predefines the preprocessor
\* holds after the hook, given those it had computed, and the hook's return
\* value.
BeginSourceFileAction(computed, Opts) ==
  [predefines |-> IF Opts.HaveCC
                  THEN UpdatePredefines(computed, Opts.Predefines)
                  ELSE computed,
   ret |-> TRUE]

\* ------------------------------------------------------- argument vectors
Range(s) == {s[k] : k \in 1..Len(s)}

\* The loop over opts.Includes: "-isystem" then the directory, in order.
RECURSIVE IsystemArgs(_)
IsystemArgs(Includes) ==
  IF Includes = <<>> THEN <<>>
  ELSE <<"-isystem", Head(Includes)>> \o IsystemArgs(Tail(Includes))

\* Mutant of AugmentArgs: the include directories pushed in reverse order.
RECURSIVE IsystemArgs_reversed(_)
IsystemArgs_reversed(Includes) ==
  IF Includes = <<>> THEN <<>>
  ELSE IsystemArgs_reversed(Tail(Includes)) \o <<"-isystem", Head(Includes)>>

AugmentArgs_reversed(argBegEnd, Opts) ==
  IF Opts.HaveCC
  THEN argBegEnd
         \o (IF Opts.Triple # "" THEN <<"-target", Opts.Triple>> ELSE <<>>)
         \o <<"-nostdinc">>
         \o IsystemArgs_reversed(Opts.Includes)
         \o <<"-undef">>
  ELSE argBegEnd

\* runClang: the local vector args built from [argBeg, argEnd) and opts.
AugmentArgs(argBegEnd, Opts) ==
  IF Opts.HaveCC
  THEN argBegEnd
         \o (IF Opts.Triple # "" THEN <<"-target", Opts.Triple>> ELSE <<>>)
         \o <<"-nostdinc">>
         \o IsystemArgs(Opts.Includes)
         \o <<"-undef">>
  ELSE argBegEnd

\* runClangImpl: cArgs, the vector handed to the driver.
DriverArgs(a, Opts) ==
  <<"<clang>">> \o a \o (IF Opts.PPOnly THEN <<"-E">> ELSE <<"-fsyntax-only">>)

\* c->getArgs().hasArg(OPT__HASH_HASH_HASH)
HasHashHashHash(c) == "-###" \in Range(c)

\* ------------------------------------------------------------------- jobs
\* A job of the driver: its creator tool's name and its argument vector.
ClangJob(flag) == [creator |-> "clang", arguments |-> <<"-cc1", flag, "file.cpp">>]
OtherJob == [creator |-> "linker", arguments |-> <<"file.o">>]

JobKinds ==
  {ClangJob("-E"), ClangJob("-fsyntax-only"), ClangJob("-analyze"),
   ClangJob("-bogus"), OtherJob}

RECURSIVE SeqsUpTo(_, _)
SeqsUpTo(S, n) ==
  IF n = 0 THEN {<<>>}
  ELSE LET prev == SeqsUpTo(S, n - 1)
       IN  prev \cup {Append(s, x) : s \in {t \in prev : Len(t) = n - 1}, x \in S}

\* The job lists d.BuildCompilation(cArgs) may return.
JobLists == SeqsUpTo(JobKinds, MaxJobs)

\* cmd && strcmp(cmd->getCreator().getName(), "clang") == 0
IsClangCommand(job) == job.creator = "clang"

\* clang::CompilerInvocation::CreateFromArgs: whether the job's arguments
\* parse.
CreateFromArgs(job) == "-bogus" \notin Range(job.arguments)

\* CI->getInvocation().getFrontendOpts().ProgramAction of a parsed job.
ProgramAction(job) ==
  IF "-E" \in Range(job.arguments) THEN "PrintPreprocessedInput"
  ELSE IF "-analyze" \in Range(job.arguments) THEN "RunAnalysis"
  ELSE "ParseSyntaxOnly"

\* Mutant of CreateFrontendAction: the default case runs the syntax-only action.
CreateFrontendAction_default(action) ==
  IF action = "PrintPreprocessedInput" THEN "CastXMLPrintPreprocessedAction"
  ELSE "CastXMLSyntaxOnlyAction"

\* CreateFrontendAction: the action object, "null" for the default case.
CreateFrontendAction(action) ==
  CASE action = "PrintPreprocessedInput" -> "CastXMLPrintPreprocessedAction"
    [] action = "ParseSyntaxOnly" -> "CastXMLSyntaxOnlyAction"
    [] OTHER -> "null"

\* Mutant of CreateASTConsumer: the structured-output consumer in every mode.
CreateASTConsumer_always(Opts, streamOpens) ==
  IF streamOpens THEN "ASTConsumer" ELSE "null"

\* CastXMLSyntaxOnlyAction::CreateASTConsumer; streamOpens is whether
\* CI.createDefaultOutputFile returns a stream.
CreateASTConsumer(Opts, streamOpens) ==
  IF ~Opts.GccXml THEN "default"
  ELSE IF streamOpens THEN "ASTConsumer"
  ELSE "null"

\* Mutants of DriverCheck: the output check made before the '-###' check;
\* the output check made for a single job too.
DriverCheck_outputFirst(c, Opts, js) ==
  IF Opts.OutputFile # "" /\ Len(js) > 1 THEN "reject"
  ELSE IF HasHashHashHash(c) THEN "print"
  ELSE "run"

DriverCheck_oneJob(c, Opts, js) ==
  IF HasHashHashHash(c) THEN "print"
  ELSE IF Opts.OutputFile # "" /\ Len(js) >= 1 THEN "reject"
  ELSE "run"

\* runClangImpl after BuildCompilation: the '-###' early exit, then the
\* '-o' with multiple inputs rejection, then the loop.
DriverCheck(c, Opts, js) ==
  IF HasHashHashHash(c) THEN "print"
  ELSE IF Opts.OutputFile # "" /\ Len(js) > 1 THEN "reject"
  ELSE "run"

\* Mutant of Aggregate: the last job's result alone.
Aggregate_last(r, res) == r

\* result = runClangCI(CI.get(), opts) && result;
Aggregate(r, res) == r /\ res

\* Mutant of LoopContinues: the loop left at the first failure.
LoopContinues_untilFailure(idx, js, res) == idx <= Len(js) /\ res

\* for(i = begin; i != e; ++i): whether the loop body runs for index idx.
LoopContinues(idx, js, res) == idx <= Len(js)


\* ------------------------------------------------------------------ state
VARIABLES
  argv,        \* the caller's vector [argBeg, argEnd) given to runClang
  opts,        \* Options const& opts
  args,        \* runClang's local vector, handed to runClangImpl
  cArgs,       \* runClangImpl's vector handed to the driver
  jobs,        \* c->getJobs()
  pc,          \* the position of the run
  i,           \* the loop's iterator, as a 1-based index into jobs
  result,      \* bool result of runClangImpl
  exitCode,    \* the value runClang returns, -1 before it returns
  log,         \* per job: what was constructed, called and returned
  order,       \* the indices of the jobs the loop body was entered for
  reported,    \* the diagnostics reported through diags
  printed,     \* whether the job list was printed to llvm::errs()
  predefines,  \* a predefines text handed to UpdatePredefines
  updated      \* what UpdatePredefines returned for it

vars == <<argv, opts, args, cArgs, jobs, pc, i, result, exitCode, log, order,
          reported, printed, predefines, updated>>

\* ------------------------------------------------------------ input texts
\* "# 1 \"<built-in>\" 2\n": the line Clang ends the command line block
\* with; it differs from predef_start in one character.
builtin_2 ==
  <<"#"," ","1"," ","\"","<","b","u","i","l","t","-","i","n",">","\""," ","2","\n">>

define_A == <<"#","d","e","f","i","n","e"," ","A","\n">>

define_FOO == <<"#","d","e","f","i","n","e"," ","F","O","O"," ","1","\n">>

Chunks == {predef_start, predef_end, builtin_2, define_A}

RECURSIVE TextsUpTo(_)
TextsUpTo(n) ==
  IF n = 0 THEN {<<>>}
  ELSE LET prev == TextsUpTo(n - 1)
       IN  prev \cup {t \o c : t \in prev, c \in Chunks}

\* The predefines Clang computes for a job: with both markers, as its
\* InitializePreprocessor writes them, or with none.
ComputedPredefines ==
  {predef_start \o define_A \o predef_end \o define_A \o builtin_2, define_A}

Replacements == {<<>>, define_FOO, predef_end \o define_FOO}

NoLog ==
  [ci |-> FALSE, parsed |-> FALSE, diagnostics |-> FALSE, action |-> "none",
   unsupported |-> FALSE, began |-> FALSE, hook |-> FALSE, computed |-> <<>>,
   installed |-> <<>>, consumer |-> "none", stream |-> FALSE,
   unit |-> FALSE, outputXML |-> 0, done |-> FALSE, ok |-> FALSE]

Idle ==
  /\ args = <<>> /\ cArgs = <<>> /\ jobs = <<>> /\ i = 0 /\ result = TRUE
  /\ exitCode = -1 /\ log = <<>> /\ order = <<>> /\ reported = <<>>
  /\ printed = FALSE /\ updated = <<>>

\* ------------------------------------------------------------------- Init
Init ==
  /\ pc = "runClang"
  /\ argv \in {<<"file.cpp">>, <<"-###", "file.cpp">>}
  /\ opts \in [HaveCC : BOOLEAN, Triple : {"x86_64-unknown-linux-gnu"},
               Includes : {<<"/inc1">>}, Predefines : {define_FOO},
               GccXml : BOOLEAN, OutputFile : {"", "out.xml"},
               PPOnly : BOOLEAN]
  /\ predefines = <<>>
  /\ Idle

InitArgs ==
  /\ pc = "runClang"
  /\ argv \in SeqsUpTo({"-###", "file.cpp", "-nostdinc"}, MaxArgs)
  /\ opts \in [HaveCC : BOOLEAN, Triple : {"", "x86_64-unknown-linux-gnu"},
               Includes : SeqsUpTo({"/inc1", "/inc2"}, MaxIncludes),
               Predefines : {define_FOO}, GccXml : {FALSE},
               OutputFile : {""}, PPOnly : {FALSE}]
  /\ predefines = <<>>
  /\ Idle

InitPredefines ==
  /\ pc = "UpdatePredefines"
  /\ argv = <<>>
  /\ opts \in [HaveCC : {TRUE}, Triple : {""}, Includes : {<<>>},
               Predefines : Replacements, GccXml : {FALSE},
               OutputFile : {""}, PPOnly : {FALSE}]
  /\ predefines \in TextsUpTo(MaxChunks)
  /\ Idle

\* ---------------------------------------------------------------- actions
\* runClang: build args and call runClangImpl.
runClang ==
  /\ pc = "runClang"
  /\ args' = AugmentArgs(argv, opts)
  /\ pc' = "runClangImpl"
  /\ UNCHANGED <<argv, opts, cArgs, jobs, i, result, exitCode, log, order,
                 reported, printed, predefines, updated>>

\* runClangImpl up to d.BuildCompilation(cArgs): the driver returns a job list.
BuildCompilation ==
  /\ pc = "runClangImpl"
  /\ cArgs' = DriverArgs(args, opts)
  /\ \E js \in JobLists :
       /\ jobs' = js
       /\ log' = [k \in 1..Len(js) |-> NoLog]
  /\ pc' = "built"
  /\ UNCHANGED <<argv, opts, args, i, result, exitCode, order, reported,
                 printed, predefines, updated>>

\* For '-###' just print the jobs and exit early.
PrintJobs ==
  /\ pc = "built"
  /\ DriverCheck(cArgs, opts, jobs) = "print"
  /\ printed' = TRUE
  /\ exitCode' = 0
  /\ pc' = "done"
  /\ UNCHANGED <<argv, opts, args, cArgs, jobs, i, result, log, order,
                 reported, predefines, updated>>

\* Reject '-o' with multiple inputs.
RejectOutput ==
  /\ pc = "built"
  /\ DriverCheck(cArgs, opts, jobs) = "reject"
  /\ reported' = Append(reported, "err_drv_output_argument_with_multiple_files")
  /\ exitCode' = 1
  /\ pc' = "done"
  /\ UNCHANGED <<argv, opts, args, cArgs, jobs, i, result, log, order,
                 printed, predefines, updated>>

\* bool result = true; i = c->getJobs().begin()
StartLoop ==
  /\ pc = "built"
  /\ DriverCheck(cArgs, opts, jobs) = "run"
  /\ result' = TRUE
  /\ i' = 1
  /\ pc' = "loop"
  /\ UNCHANGED <<argv, opts, args, cArgs, jobs, exitCode, log, order,
                 reported, printed, predefines, updated>>

\* The loop ends: return result ? 0 : 1.
LoopExit ==
  /\ pc = "loop"
  /\ ~LoopContinues(i, jobs, result)
  /\ exitCode' = IF result THEN 0 ELSE 1
  /\ pc' = "done"
  /\ UNCHANGED <<argv, opts, args, cArgs, jobs, i, result, log, order,
                 reported, printed, predefines, updated>>

\* The else branch of the loop body: skip this unexpected job.
SkipUnexpectedJob ==
  /\ pc = "loop"
  /\ LoopContinues(i, jobs, result)
  /\ ~IsClangCommand(jobs[i])
  /\ order' = Append(order, i)
  /\ reported' = reported \o <<"err_fe_expected_clang_command",
                               "err_fe_expected_compiler_job">>
  /\ log' = [log EXCEPT ![i].done = TRUE, ![i].ok = FALSE]
  /\ result' = FALSE
  /\ i' = i + 1
  /\ UNCHANGED <<argv, opts, args, cArgs, jobs, pc, exitCode, printed,
                 predefines, updated>>

\* A clang command whose arguments CreateFromArgs does not parse.
InvocationFails ==
  /\ pc = "loop"
  /\ LoopContinues(i, jobs, result)
  /\ IsClangCommand(jobs[i])
  /\ ~CreateFromArgs(jobs[i])
  /\ order' = Append(order, i)
  /\ log' = [log EXCEPT ![i].ci = TRUE, ![i].done = TRUE, ![i].ok = FALSE]
  /\ result' = FALSE
  /\ i' = i + 1
  /\ UNCHANGED <<argv, opts, args, cArgs, jobs, pc, exitCode, reported,
                 printed, predefines, updated>>

\* A clang command whose arguments parse: runClangCI is called.
InvocationParses ==
  /\ pc = "loop"
  /\ LoopContinues(i, jobs, result)
  /\ IsClangCommand(jobs[i])
  /\ CreateFromArgs(jobs[i])
  /\ order' = Append(order, i)
  /\ log' = [log EXCEPT ![i].ci = TRUE, ![i].parsed = TRUE]
  /\ pc' = "runClangCI"
  /\ UNCHANGED <<argv, opts, args, cArgs, jobs, i, result, exitCode,
                 reported, printed, predefines, updated>>

\* runClangCI (or the frontend run it starts) returns r for job i:
\* result = r && result, and ++i.
Return(r, lg) ==
  /\ log' = [lg EXCEPT ![i].done = TRUE, ![i].ok = r]
  /\ result' = Aggregate(r, result)
  /\ i' = i + 1
  /\ pc' = "loop"

\* runClangCI: !CI->hasDiagnostics(), return false.
NoDiagnostics ==
  /\ pc = "runClangCI"
  /\ Return(FALSE, log)
  /\ UNCHANGED <<argv, opts, args, cArgs, jobs, exitCode, order, reported,
                 printed, predefines, updated>>

\* runClangCI: CreateFrontendAction returns 0, return false.
UnsupportedAction ==
  /\ pc = "runClangCI"
  /\ CreateFrontendAction(ProgramAction(jobs[i])) = "null"
  /\ Return(FALSE, [log EXCEPT ![i].diagnostics = TRUE,
                               ![i].unsupported = TRUE])
  /\ UNCHANGED <<argv, opts, args, cArgs, jobs, exitCode, order, reported,
                 printed, predefines, updated>>

\* runClangCI: the action is constructed and CI->ExecuteAction(*action) called.
ActionCreated ==
  /\ pc = "runClangCI"
  /\ CreateFrontendAction(ProgramAction(jobs[i])) # "null"
  /\ log' = [log EXCEPT ![i].diagnostics = TRUE,
               ![i].action = CreateFrontendAction(ProgramAction(jobs[i]))]
  /\ pc' = "ExecuteAction"
  /\ UNCHANGED <<argv, opts, args, cArgs, jobs, i, result, exitCode, order,
                 reported, printed, predefines, updated>>

\* ExecuteAction fails before the action's hooks run (the input cannot be
\* read): it returns false.
BeginSourceFileFails ==
  /\ pc = "ExecuteAction"
  /\ Return(FALSE, log)
  /\ UNCHANGED <<argv, opts, args, cArgs, jobs, exitCode, order, reported,
                 printed, predefines, updated>>

\* The frontend has computed the preprocessor's predefines and calls the
\* action's BeginSourceFileAction; a false return ends ExecuteAction with
\* false.
BeginSourceFile ==
  /\ pc = "ExecuteAction"
  /\ \E computed \in ComputedPredefines :
       LET hook == BeginSourceFileAction(computed, opts)
           lg == [log EXCEPT ![i].began = TRUE, ![i].hook = hook.ret,
                    ![i].computed = computed,
                    ![i].installed = hook.predefines]
       IN  IF hook.ret
           THEN /\ log' = lg
                /\ pc' = IF log[i].action = "CastXMLSyntaxOnlyAction"
                         THEN "CreateASTConsumer" ELSE "Execute"
                /\ UNCHANGED <<i, result>>
           ELSE Return(FALSE, lg)
  /\ UNCHANGED <<argv, opts, args, cArgs, jobs, exitCode, order, reported,
                 printed, predefines, updated>>

\* The frontend calls CastXMLSyntaxOnlyAction::CreateASTConsumer; a null
\* consumer ends ExecuteAction with false.
CreateConsumer ==
  /\ pc = "CreateASTConsumer"
  /\ \E streamOpens \in BOOLEAN :
       LET consumer == CreateASTConsumer(opts, streamOpens)
           lg == [log EXCEPT ![i].consumer = consumer,
                    ![i].stream = (opts.GccXml /\ streamOpens)]
       IN  IF consumer = "null"
           THEN Return(FALSE, lg)
           ELSE /\ log' = lg
                /\ pc' = "Execute"
                /\ UNCHANGED <<i, result>>
  /\ UNCHANGED <<argv, opts, args, cArgs, jobs, exitCode, order, reported,
                 printed, predefines, updated>>

\* ASTConsumer::HandleTranslationUnit: one call of outputXML.
HandleTranslationUnit(lg) ==
  [lg EXCEPT ![i].outputXML = @ + 1]

\* The frontend processes the input.  When it completes the translation
\* unit it calls the consumer's HandleTranslationUnit; ExecuteAction returns
\* whether the run was free of errors.
Execute ==
  /\ pc = "Execute"
  /\ \E completes \in BOOLEAN, clean \in BOOLEAN :
       /\ clean => completes
       /\ LET l1 == [log EXCEPT ![i].unit = completes]
              l2 == IF completes /\ log[i].consumer = "ASTConsumer"
                    THEN HandleTranslationUnit(l1) ELSE l1
          IN  Return(clean, l2)
  /\ UNCHANGED <<argv, opts, args, cArgs, jobs, exitCode, order, reported,
                 printed, predefines, updated>>

\* UpdatePredefines applied to a text.
ApplyUpdatePredefines ==
  /\ pc = "UpdatePredefines"
  /\ updated' = UpdatePredefines(predefines, opts.Predefines)
  /\ pc' = "updated"
  /\ UNCHANGED <<argv, opts, args, cArgs, jobs, i, result, exitCode, log,
                 order, reported, printed, predefines>>

Next ==
  \/ runClang
  \/ BuildCompilation
  \/ PrintJobs
  \/ RejectOutput
  \/ StartLoop
  \/ LoopExit
  \/ SkipUnexpectedJob
  \/ InvocationFails
  \/ InvocationParses
  \/ NoDiagnostics
  \/ UnsupportedAction
  \/ ActionCreated
  \/ BeginSourceFileFails
  \/ BeginSourceFile
  \/ CreateConsumer
  \/ Execute

\* A run of runClang.
Spec == Init /\ [][Next]_vars

\* runClang's argument vector alone, over wider inputs.
SpecArgs == InitArgs /\ [][runClang]_vars

\* UpdatePredefines alone, over texts built from marker and other lines.
SpecPredefines == InitPredefines /\ [][ApplyUpdatePredefines]_vars

\* ----------------------------------------------------------------- claims
\* What the claims speak of, stated apart from the operators above.
PrintJobsFlag == \E k \in 1..Len(argv) : argv[k] = "-###"

OutputConflict == opts.OutputFile # "" /\ Len(jobs) > 1

Untouched(k) == log[k] = NoLog

\* pat occurs in s at 0-based position pos.
IsAt(s, pat, pos) ==
  /\ pos + Len(pat) <= Len(s)
  /\ \A k \in 1..Len(pat) : s[pos + k] = pat[k]

Occurs(s, pat) == \E pos \in 0..Len(s) : IsAt(s, pat, pos)

First(s, pat) ==
  CHOOSE pos \in 0..Len(s) :
    IsAt(s, pat, pos) /\ \A q \in 0..(pos - 1) : ~IsAt(s, pat, q)

BothMarkers(s) == Occurs(s, predef_start) /\ Occurs(s, predef_end)

\* X: the text up to and including the first <built-in> marker line.
UpToBuiltIn(s) ==
  [k \in 1..(First(s, predef_start) + Len(predef_start)) |-> s[k]]

\* Y: the text from the first <command line> marker to the end.
FromCommandLine(s) ==
  [k \in 1..(Len(s) - First(s, predef_end)) |-> s[First(s, predef_end) + k]]

\* C1: without the print-jobs flag, a finished run's exit code is 0 exactly
\* when there was no output conflict and every job of the list is a clang
\* command whose invocation parsed and whose execution returned true; it is
\* 1 otherwise.
C1_ExitCode ==
  (pc = "done" /\ ~PrintJobsFlag) =>
    /\ exitCode \in {0, 1}
    /\ exitCode = 0 <=>
         /\ ~OutputConflict
         /\ \A k \in 1..Len(jobs) :
              /\ jobs[k].creator = "clang"
              /\ log[k].parsed
              /\ log[k].ok

\* C1's case: two jobs, the first failed and the second succeeded.
C1_Witness ==
  /\ pc = "done" /\ ~PrintJobsFlag /\ Len(jobs) = 2
  /\ ~log[1].ok /\ log[2].ok /\ exitCode = 1

\* C2: with the print-jobs flag, no job is ever dispatched (no instance, no
\* hook, no outputXML call, no diagnostic), and the finished run has printed
\* the job list and returned 0, whatever the output file and the jobs.
C2_DryRun ==
  PrintJobsFlag =>
    /\ order = <<>>
    /\ reported = <<>>
    /\ \A k \in 1..Len(log) : Untouched(k)
    /\ pc = "done" => (printed /\ exitCode = 0)

\* C2's case: a dry run with an output file, two jobs and a job that is no
\* compiler command.
C2_Witness ==
  /\ pc = "done" /\ PrintJobsFlag /\ OutputConflict
  /\ \E k \in 1..Len(jobs) : jobs[k].creator # "clang"

\* C3: without the print-jobs flag, an output file with more than one job
\* ends the run with the multiple-files diagnostic and exit code 1 before
\* any job is dispatched; without that conflict the diagnostic is never
\* reported.
C3_OutputConflict ==
  ~PrintJobsFlag =>
    /\ (pc \in {"loop", "runClangCI", "ExecuteAction", "CreateASTConsumer",
                "Execute"}) => ~OutputConflict
    /\ (pc = "done" /\ OutputConflict) =>
         /\ exitCode = 1
         /\ reported = <<"err_drv_output_argument_with_multiple_files">>
         /\ order = <<>>
         /\ \A k \in 1..Len(log) : Untouched(k)
    /\ ~OutputConflict =>
         \A k \in 1..Len(reported) :
           reported[k] # "err_drv_output_argument_with_multiple_files"

\* C3's case: the run rejected for an output file with two clang jobs.
C3_Witness ==
  /\ pc = "done" /\ ~PrintJobsFlag /\ OutputConflict /\ exitCode = 1
  /\ \A k \in 1..Len(jobs) : jobs[k].creator = "clang"

\* C4: for a text holding both markers, UpdatePredefines returns X + R + Y:
\* X the text through the first <built-in> marker line, R the replacement,
\* Y the text from the first <command line> marker on; so only R lies
\* between X and Y.
C4_Splice ==
  (pc = "updated" /\ BothMarkers(predefines)) =>
    LET X == UpToBuiltIn(predefines)
        Y == FromCommandLine(predefines)
        R == opts.Predefines
    IN  /\ updated = X \o R \o Y
        /\ SubSeq(updated, 1, Len(X)) = X
        /\ SubSeq(updated, Len(updated) - Len(Y) + 1, Len(updated)) = Y
        /\ SubSeq(updated, Len(X) + 1, Len(updated) - Len(Y)) = R

\* C4's case: both markers, text between them that is dropped, and a
\* replacement that is inserted.
C4_Witness ==
  /\ pc = "updated" /\ BothMarkers(predefines)
  /\ First(predefines, predef_start) + Len(predef_start)
       < First(predefines, predef_end)
  /\ opts.Predefines = define_FOO
  /\ Len(updated) < Len(predefines) + Len(opts.Predefines)

\* C5: for a text in which a marker is missing, UpdatePredefines returns
\* the text unchanged followed by the replacement.
C5_Fallback ==
  (pc = "updated" /\ ~BothMarkers(predefines)) =>
    /\ Len(updated) = Len(predefines) + Len(opts.Predefines)
    /\ \A k \in 1..Len(predefines) : updated[k] = predefines[k]
    /\ \A k \in 1..Len(opts.Predefines) :
         updated[Len(predefines) + k] = opts.Predefines[k]

\* C5's case: only the <built-in> marker present, and a replacement.
C5_Witness ==
  /\ pc = "updated"
  /\ Occurs(predefines, predef_start) /\ ~Occurs(predefines, predef_end)
  /\ opts.Predefines = define_FOO
  /\ updated # predefines

\* The vector handed to runClangImpl: the caller's vector, then the tokens
\* emulation adds.
AugmentedVector ==
  (pc = "runClangImpl") =>
    LET n == Len(opts.Includes)
        t == IF opts.Triple # "" THEN 2 ELSE 0
        suffix == [k \in 1..(Len(args) - Len(argv)) |-> args[Len(argv) + k]]
    IN  /\ Len(args) >= Len(argv)
        /\ \A k \in 1..Len(argv) : args[k] = argv[k]
        /\ ~opts.HaveCC => args = argv
        /\ opts.HaveCC =>
             /\ Len(suffix) = t + 1 + 2 * n + 1
             /\ t = 2 => (suffix[1] = "-target" /\ suffix[2] = opts.Triple)
             /\ suffix[t + 1] = "-nostdinc"
             /\ \A k \in 1..n :
                  /\ suffix[t + 2 * k] = "-isystem"
                  /\ suffix[t + 2 * k + 1] = opts.Includes[k]
             /\ suffix[Len(suffix)] = "-undef"

\* C6: the vector runClang hands on is the caller's vector followed by
\* nothing when emulation is off, and by -target <triple> (for a non-empty
\* triple), -nostdinc, -isystem <dir> for each include directory in order,
\* and -undef when it is on; no step changes the caller's vector.
C6_Augmented == []AugmentedVector /\ [][argv' = argv]_vars

\* C6's case: emulation on, a triple, two different include directories and
\* a caller's vector of two tokens.
C6_Witness ==
  /\ pc = "runClangImpl" /\ opts.HaveCC /\ opts.Triple # ""
  /\ Len(opts.Includes) = 2 /\ opts.Includes[1] # opts.Includes[2]
  /\ Len(argv) = 2

\* C7: outputXML has been called once for a job whose action is syntax-only,
\* in structured-output mode, whose output stream opened and whose
\* translation unit was completed, and never for any other job.
C7_OutputXML ==
  \A k \in 1..Len(log) :
    log[k].outputXML =
      IF /\ ProgramAction(jobs[k]) = "ParseSyntaxOnly"
         /\ opts.GccXml
         /\ log[k].stream
         /\ log[k].unit
      THEN 1 ELSE 0

\* C7's case: one job serialized, another whose stream did not open.
C7_Witness ==
  /\ pc = "done" /\ Len(jobs) = 2
  /\ log[1].outputXML = 1
  /\ log[2].consumer = "null" /\ log[2].outputXML = 0

\* C8: once a job's BeginSourceFileAction has run it has returned true, and
\* the predefines installed are those the preprocessor had computed when
\* emulation is off and UpdatePredefines of them when it is on; no consumer
\* is created and no unit processed before that.
C8_Patcher ==
  \A k \in 1..Len(log) :
    /\ log[k].began =>
         /\ log[k].hook
         /\ ~opts.HaveCC => log[k].installed = log[k].computed
         /\ opts.HaveCC =>
              log[k].installed =
                UpdatePredefines(log[k].computed, opts.Predefines)
    /\ (log[k].consumer # "none" \/ log[k].unit) => log[k].began

\* C8's case: emulation off, a job whose computed predefines hold both
\* markers has been processed.
C8_Witness ==
  \E k \in 1..Len(log) :
    /\ ~opts.HaveCC /\ log[k].began /\ log[k].unit
    /\ BothMarkers(log[k].computed)

\* C9: the loop enters the jobs in list order, each once, a job only after
\* the one before it is finished; a failed job leaves result false, and the
\* finished run (dispatch begun) has entered and finished every job.
C9_Dispatch ==
  /\ \A k \in 1..Len(order) : order[k] = k
  /\ \A k \in 1..Len(order) : k < Len(order) => log[k].done
  /\ \A k \in 1..Len(log) : (log[k].done /\ ~log[k].ok) => ~result
  /\ (pc = "done" /\ ~PrintJobsFlag /\ ~OutputConflict) =>
       /\ Len(order) = Len(jobs)
       /\ \A k \in 1..Len(jobs) : log[k].done

\* C9's case: the first job failed in runClangCI for lack of a diagnostics
\* engine and the second was then run and succeeded.
C9_Witness ==
  /\ pc = "done" /\ Len(jobs) = 2 /\ order = <<1, 2>>
  /\ log[1].parsed /\ ~log[1].diagnostics /\ ~log[1].ok
  /\ log[2].ok

\* C10 as stated: after a job with an unsupported program action no later
\* job is dispatched.
C10_AbortsRun ==
  \A k \in 1..Len(log) :
    log[k].unsupported =>
      \A m \in (k + 1)..Len(log) : Untouched(m)

\* C10 amended: an unsupported program action fails its own job only: no
\* action is constructed or executed for it, result becomes false, and the
\* finished run has exit code 1 and has entered and finished every later job.
C10_FailsJobOnly ==
  \A k \in 1..Len(log) :
    /\ (log[k].diagnostics /\ ProgramAction(jobs[k]) = "RunAnalysis") =>
         log[k].unsupported
    /\ log[k].unsupported =>
         /\ log[k].done /\ ~log[k].ok /\ ~result
         /\ log[k].action = "none" /\ ~log[k].began
         /\ pc = "done" =>
              /\ exitCode = 1
              /\ \A m \in (k + 1)..Len(jobs) : log[m].ci \/ log[m].done
              /\ Len(order) = Len(jobs)

\* C10's case: the first job's action is unsupported and the second job was
\* executed and succeeded.
C10_Witness ==
  /\ pc = "done" /\ Len(jobs) = 2
  /\ log[1].unsupported /\ log[2].ok /\ exitCode = 1

============================================================================
